---- MODULE Spec2Model ----
(***************************************************************************)
(* Clothy: the virtual try-on workflow of App (two upload slots, the       *)
(* generation trigger, the result / loading / error fields) together with  *)
(* generateVirtualTryOnImage of services/geminiService.ts.                 *)
(*                                                                         *)
(* JavaScript runs one handler at a time.  A handler runs up to its first  *)
(* await as one step; the code after the await is a second step that runs  *)
(* when the awaited promise settles.  A promise that is already rejected   *)
(* when it is awaited resumes in a microtask, before any other event.      *)
(***************************************************************************)
EXTENDS Integers, Sequences, FiniteSets, Bags, TLC

(* ---------------------------- bounds ---------------------------------- *)

MaxPending == 1     \* file encodings that may be pending at once
MaxInflight == 2    \* generation calls that may be in flight at once

(* --------------------------- constants -------------------------------- *)

Null == "<null>"

ValidationMsg == "Please upload both images before trying on."
EncodingFailedMsg == "Failed to process file. Please try another image."
ApiKeyMsg == "API_KEY environment variable not set."
NoImageMsg == "The API did not return a valid image. The response might have been blocked or did not meet safety guidelines."
GenericMsg == "Failed to generate image. The model may be unavailable or the request was invalid."
DataUrlPrefix == "data:image/png;base64,"
InstructionText == "Using the two images provided, superimpose the clothing item from the second image onto the person in the first image. The fit should be realistic and natural. The output must be a high-quality, photorealistic image showing only the final result of the person wearing the clothing."

Types == {"person", "clothing"}

\* ImageState | null
NullImage == [file |-> Null, base64 |-> Null, mimeType |-> Null]

(* ----------------------------- Encoder -------------------------------- *)

Files == {"person.jpg", "shirt.png", "broken.img"}

\* fileToBase64: the file's base64 payload and media type, or a rejection
\* when the file cannot be read.
fileToBase64(file) ==
    CASE file = "person.jpg" -> [ok |-> TRUE, base64 |-> "cGVy", mimeType |-> "image/jpeg"]
      [] file = "shirt.png" -> [ok |-> TRUE, base64 |-> "c2hp", mimeType |-> "image/png"]
      [] OTHER -> [ok |-> FALSE, base64 |-> Null, mimeType |-> Null]

(* ------------------------ the remote service -------------------------- *)

NullBlob == [mimeType |-> Null, data |-> Null]
TextPart == [inlineData |-> NullBlob, text |-> "Here is your image"]
PngPart == [inlineData |-> [mimeType |-> "image/png", data |-> "Zm9v"], text |-> Null]
JpegPart == [inlineData |-> [mimeType |-> "image/jpeg", data |-> "YmFy"], text |-> Null]
PdfPart == [inlineData |-> [mimeType |-> "application/pdf", data |-> "cGRm"], text |-> Null]

\* What the awaited ai.models.generateContent call settles with: a response
\* (whose candidate may carry no parts at all) or a rejection with the
\* service's own error text.
ServiceOutcomes ==
    { [kind |-> "response", hasParts |-> TRUE, parts |-> ps] :
        ps \in { <<>>, <<TextPart>>, <<PngPart>>, <<PdfPart, JpegPart>>,
                 <<JpegPart, PngPart>> } }
    \cup { [kind |-> "response", hasParts |-> FALSE, parts |-> <<>>] }
    \cup { [kind |-> "rejected", message |-> m] :
             m \in {"fetch failed", "503 Service Unavailable"} }

startsWith(s, prefix) ==
    /\ Len(s) >= Len(prefix)
    /\ SubSeq(s, 1, Len(prefix)) = prefix

isImagePart_anyInline(part) ==
    part.inlineData # NullBlob

\* the predicate handed to parts.find
isImagePart(part) ==
    /\ part.inlineData # NullBlob
    /\ startsWith(part.inlineData.mimeType, "image/")

\* Array.prototype.find: the first element satisfying the predicate
RECURSIVE find(_, _)
find(parts, i) ==
    IF i > Len(parts) THEN 0
    ELSE IF isImagePart(parts[i]) THEN i
    ELSE find(parts, i + 1)

\* response.candidates?.[0]?.content?.parts?.find(...): 0 stands for undefined
imagePartOf(svc) ==
    IF svc.hasParts THEN find(svc.parts, 1) ELSE 0

\* The body of the try block once the awaited call has settled.
tryBlock(svc) ==
    IF svc.kind = "rejected"
    THEN [ok |-> FALSE, message |-> svc.message]
    ELSE LET k == imagePartOf(svc) IN
         IF k # 0
         THEN [ok |-> TRUE, value |-> svc.parts[k].inlineData.data]
         ELSE [ok |-> FALSE, message |-> NoImageMsg]

catchBlock_rethrow(thrown) == thrown

\* The catch clause: whatever was thrown inside the try block is logged to
\* the console and replaced by a new Error carrying the generic text.
catchBlock(thrown) ==
    [ok |-> FALSE, message |-> GenericMsg]

\* How the promise returned by generateVirtualTryOnImage settles once the
\* service call has settled.
generateSettlement(svc) ==
    LET r == tryBlock(svc) IN
    IF r.ok THEN r ELSE catchBlock(r)

\* Why a settled service call did not yield an image.
Cause(svc) ==
    IF svc.kind = "rejected" THEN "transport"
    ELSE IF imagePartOf(svc) = 0 THEN "noImage"
    ELSE "none"

(* ------------------------------ state --------------------------------- *)

VARIABLES
    personImage,      \* useState<ImageState | null>
    clothingImage,    \* useState<ImageState | null>
    generatedImage,   \* useState<string | null>
    isLoading,        \* useState<boolean>
    error,            \* useState<string | null>
    apiKey,           \* whether process.env.API_KEY is set
    pendingEnc,       \* bag of handleFileChange invocations awaiting fileToBase64
    inflight,         \* handleTryOn invocations awaiting generateVirtualTryOnImage
    selected,         \* per type, the file of the latest handleFileChange (Null: cleared)
    everStored,       \* per type, whether an encoded file was ever stored
    clearedAfterStore,\* per type, the latest handleFileChange was a clear that followed a store
    everSettled,      \* whether some generation attempt has finished
    lastEvent         \* the handler step taken last

vars == <<personImage, clothingImage, generatedImage, isLoading, error, apiKey,
          pendingEnc, inflight,
          selected, everStored, clearedAfterStore, everSettled, lastEvent>>

slots == <<personImage, clothingImage>>
uploadHistory == <<selected, everStored, clearedAfterStore>>
attemptState == <<generatedImage, isLoading, inflight, everSettled>>

Remove(s, i) == SubSeq(s, 1, i - 1) \o SubSeq(s, i + 1, Len(s))

slotOf(type) == IF type = "person" THEN personImage ELSE clothingImage

\* A continuation queued as a microtask runs before any other event.
NoMicrotask == \A i \in 1..Len(inflight) : inflight[i].stage # "threw"

Init ==
    /\ personImage = NullImage
    /\ clothingImage = NullImage
    /\ generatedImage = Null
    /\ isLoading = FALSE
    /\ error = Null
    /\ apiKey \in BOOLEAN
    /\ pendingEnc = EmptyBag
    /\ inflight = <<>>
    /\ selected = [t \in Types |-> Null]
    /\ everStored = [t \in Types |-> FALSE]
    /\ clearedAfterStore = [t \in Types |-> FALSE]
    /\ everSettled = FALSE
    /\ lastEvent = [kind |-> "init"]

(* ------------------------- handleFileChange --------------------------- *)

\* setPersonImage / setClothingImage
setImage(type, value) ==
    /\ personImage' = IF type = "person" THEN value ELSE personImage
    /\ clothingImage' = IF type = "person" THEN clothingImage ELSE value

\* handleFileChange(null, type)
handleFileChangeClear(type) ==
    /\ NoMicrotask
    /\ setImage(type, NullImage)
    /\ selected' = [selected EXCEPT ![type] = Null]
    /\ clearedAfterStore' = [clearedAfterStore EXCEPT ![type] = everStored[type]]
    /\ lastEvent' = [kind |-> "cleared"]
    /\ UNCHANGED <<attemptState, error, apiKey, pendingEnc, everStored>>

\* handleFileChange(file, type) up to its await of fileToBase64(file)
handleFileChangeSelect(file, type) ==
    /\ NoMicrotask
    /\ BagCardinality(pendingEnc) < MaxPending
    /\ pendingEnc' = pendingEnc (+) SetToBag({[file |-> file, type |-> type]})
    /\ selected' = [selected EXCEPT ![type] = file]
    /\ clearedAfterStore' = [clearedAfterStore EXCEPT ![type] = FALSE]
    /\ lastEvent' = [kind |-> "selected"]
    /\ UNCHANGED <<slots, attemptState, error, apiKey, everStored>>

handleFileChangeEncoded_clearsError(file, type) ==
    /\ NoMicrotask
    /\ BagIn([file |-> file, type |-> type], pendingEnc)
    /\ fileToBase64(file).ok
    /\ setImage(type, [file |-> file, base64 |-> fileToBase64(file).base64,
                       mimeType |-> fileToBase64(file).mimeType])
    /\ error' = Null
    /\ everStored' = [everStored EXCEPT ![type] = TRUE]
    /\ lastEvent' = [kind |-> "encoded"]
    /\ pendingEnc' = pendingEnc (-) SetToBag({[file |-> file, type |-> type]})
    /\ UNCHANGED <<attemptState, apiKey, selected, clearedAfterStore>>

\* handleFileChange after the await, fileToBase64 resolved
handleFileChangeEncoded(file, type) ==
    /\ NoMicrotask
    /\ BagIn([file |-> file, type |-> type], pendingEnc)
    /\ fileToBase64(file).ok
    /\ setImage(type, [file |-> file, base64 |-> fileToBase64(file).base64,
                       mimeType |-> fileToBase64(file).mimeType])
    /\ everStored' = [everStored EXCEPT ![type] = TRUE]
    /\ lastEvent' = [kind |-> "encoded"]
    /\ pendingEnc' = pendingEnc (-) SetToBag({[file |-> file, type |-> type]})
    /\ UNCHANGED <<attemptState, error, apiKey, selected, clearedAfterStore>>

handleFileChangeCatch_clearsSlot(file, type) ==
    /\ NoMicrotask
    /\ BagIn([file |-> file, type |-> type], pendingEnc)
    /\ ~fileToBase64(file).ok
    /\ setImage(type, NullImage)
    /\ error' = EncodingFailedMsg
    /\ lastEvent' = [kind |-> "encodeFailed"]
    /\ pendingEnc' = pendingEnc (-) SetToBag({[file |-> file, type |-> type]})
    /\ UNCHANGED <<attemptState, apiKey, uploadHistory>>

\* handleFileChange after the await, fileToBase64 rejected
handleFileChangeCatch(file, type) ==
    /\ NoMicrotask
    /\ BagIn([file |-> file, type |-> type], pendingEnc)
    /\ ~fileToBase64(file).ok
    /\ error' = EncodingFailedMsg
    /\ lastEvent' = [kind |-> "encodeFailed"]
    /\ pendingEnc' = pendingEnc (-) SetToBag({[file |-> file, type |-> type]})
    /\ UNCHANGED <<slots, attemptState, apiKey, uploadHistory>>

(* ---------------------------- handleTryOn ----------------------------- *)

GuardFails_personOnly(person, clothing) ==
    person = NullImage

GuardFails_bothMissing(person, clothing) ==
    person = NullImage /\ clothing = NullImage

\* if (!personImage || !clothingImage)
GuardFails(person, clothing) ==
    person = NullImage \/ clothing = NullImage

validationFails_resetsResult ==
    /\ error' = ValidationMsg
    /\ generatedImage' = Null
    /\ lastEvent' = [kind |-> "validationFailed"]
    /\ UNCHANGED <<slots, isLoading, inflight, everSettled, apiKey, pendingEnc, uploadHistory>>

\* the body of the guard: setError(...); return
validationFails ==
    /\ error' = ValidationMsg
    /\ lastEvent' = [kind |-> "validationFailed"]
    /\ UNCHANGED <<slots, attemptState, apiKey, pendingEnc, uploadHistory>>

buildRequest_personTypeTwice(person, clothing) ==
    << [inlineData |-> [data |-> person.base64, mimeType |-> person.mimeType]],
       [inlineData |-> [data |-> clothing.base64, mimeType |-> person.mimeType]],
       [text |-> InstructionText] >>

\* contents.parts: [personImagePart, clothingImagePart, textPart]
buildRequest(person, clothing) ==
    << [inlineData |-> [data |-> person.base64, mimeType |-> person.mimeType]],
       [inlineData |-> [data |-> clothing.base64, mimeType |-> clothing.mimeType]],
       [text |-> InstructionText] >>

\* no request leaves when the API_KEY check throws
NoRequest == << >>

generateStage_noCheck == "sent"

\* generateVirtualTryOnImage up to its first suspension: without API_KEY it
\* throws before anything is sent, otherwise it sends one request and awaits
generateStage == IF apiKey THEN "sent" ELSE "threw"

startGeneration_keepsResult ==
    /\ Len(inflight) < MaxInflight
    /\ isLoading' = TRUE
    /\ error' = Null
    /\ inflight' =
         Append([i \in 1..Len(inflight) |-> [inflight[i] EXCEPT !.overlapped = TRUE]],
                [person |-> personImage, clothing |-> clothingImage,
                 stage |-> generateStage,
                 request |-> IF generateStage = "sent"
                             THEN buildRequest(personImage, clothingImage)
                             ELSE NoRequest,
                 overlapped |-> inflight # <<>>, sawResult |-> FALSE])
    /\ lastEvent' = [kind |-> "generating"]
    /\ UNCHANGED <<slots, generatedImage, apiKey, pendingEnc, uploadHistory, everSettled>>

\* setIsLoading(true); setError(null); setGeneratedImage(null); then the
\* call of generateVirtualTryOnImage(personImage, clothingImage)
startGeneration ==
    /\ Len(inflight) < MaxInflight
    /\ isLoading' = TRUE
    /\ error' = Null
    /\ generatedImage' = Null
    /\ inflight' =
         Append([i \in 1..Len(inflight) |-> [inflight[i] EXCEPT !.overlapped = TRUE]],
                [person |-> personImage, clothing |-> clothingImage,
                 stage |-> generateStage,
                 request |-> IF generateStage = "sent"
                             THEN buildRequest(personImage, clothingImage)
                             ELSE NoRequest,
                 overlapped |-> inflight # <<>>, sawResult |-> FALSE])
    /\ lastEvent' = [kind |-> "generating"]
    /\ UNCHANGED <<slots, apiKey, pendingEnc, uploadHistory, everSettled>>

handleTryOn ==
    /\ NoMicrotask
    /\ IF GuardFails(personImage, clothingImage)
       THEN validationFails
       ELSE startGeneration

DataUrl_noPrefix(resultBase64) == resultBase64

\* `data:image/png;base64,${resultBase64}`
DataUrl(resultBase64) == DataUrlPrefix \o resultBase64

ErrorText_noDetail(message) == "An error occurred. Please try again."

\* `An error occurred: ${err.message}. Please try again.`
ErrorText(message) == "An error occurred: " \o message \o ". Please try again."

\* try { ... setGeneratedImage(...) }: written only when the call resolved
ImageAfterSettle(r) == IF r.ok THEN DataUrl(r.value) ELSE generatedImage

ErrorAfterSettle_swallowed(r) == error

\* catch (err) { setError(...) }: written only when the call rejected
ErrorAfterSettle(r) == IF r.ok THEN error ELSE ErrorText(r.message)

LoadingAfterSettle_noFinally(r) == IF r.ok THEN FALSE ELSE isLoading

\* finally { setIsLoading(false) }
LoadingAfterSettle(r) == FALSE

InflightAfterSettle_retry(i, r) ==
    IF r.ok
    THEN Remove([k \in 1..Len(inflight) |-> [inflight[k] EXCEPT !.sawResult = TRUE]], i)
    ELSE inflight

\* the settled call is over, whatever its outcome: nothing is re-issued; the
\* calls still in flight have seen a result stored if this one resolved
InflightAfterSettle(i, r) ==
    Remove([k \in 1..Len(inflight) |->
              [inflight[k] EXCEPT !.sawResult = inflight[k].sawResult \/ r.ok]], i)

\* handleTryOn after its await: the try / catch / finally around the call
handleTryOnSettle(i, r, cause, outcome) ==
    /\ generatedImage' = ImageAfterSettle(r)
    /\ error' = ErrorAfterSettle(r)
    /\ isLoading' = LoadingAfterSettle(r)
    /\ inflight' = InflightAfterSettle(i, r)
    /\ everSettled' = TRUE
    /\ lastEvent' =
         IF r.ok
         THEN [kind |-> "succeeded", value |-> r.value, outcome |-> outcome,
               overlapped |-> inflight[i].overlapped]
         ELSE [kind |-> "failed", message |-> r.message, cause |-> cause,
               outcome |-> outcome,
               overlapped |-> inflight[i].overlapped,
               sawResult |-> inflight[i].sawResult]
    /\ UNCHANGED <<slots, apiKey, pendingEnc, uploadHistory>>

\* the API_KEY check threw: the awaited promise is already rejected
generateThrewConfig(i) ==
    /\ i \in 1..Len(inflight)
    /\ inflight[i].stage = "threw"
    /\ handleTryOnSettle(i, [ok |-> FALSE, message |-> ApiKeyMsg], "config",
                         [kind |-> "none"])

\* the service call settled with svc
generateSettles(i, svc) ==
    /\ NoMicrotask
    /\ i \in 1..Len(inflight)
    /\ inflight[i].stage = "sent"
    /\ handleTryOnSettle(i, generateSettlement(svc), Cause(svc), svc)

(* -------------------------- specification ----------------------------- *)

Settle ==
    \/ \E i \in 1..MaxInflight : generateThrewConfig(i)
    \/ \E i \in 1..MaxInflight, svc \in ServiceOutcomes : generateSettles(i, svc)

Next ==
    \/ \E type \in Types : handleFileChangeClear(type)
    \/ \E file \in Files, type \in Types : handleFileChangeSelect(file, type)
    \/ \E file \in Files, type \in Types : handleFileChangeEncoded(file, type)
    \/ \E file \in Files, type \in Types : handleFileChangeCatch(file, type)
    \/ handleTryOn
    \/ \E i \in 1..MaxInflight : generateThrewConfig(i)
    \/ \E i \in 1..MaxInflight, svc \in ServiceOutcomes : generateSettles(i, svc)

Spec == Init /\ [][Next]_vars

\* Every service call eventually settles, and a queued continuation runs.
LiveSpec == Spec /\ WF_vars(Settle)

isButtonDisabled_ignoresLoading ==
    personImage = NullImage \/ clothingImage = NullImage

\* const isButtonDisabled = !personImage || !clothingImage || isLoading
isButtonDisabled ==
    personImage = NullImage \/ clothingImage = NullImage \/ isLoading

\* onClick={handleTryOn} of a button with disabled={isButtonDisabled}
clickTryOn ==
    /\ ~isButtonDisabled
    /\ handleTryOn

\* The program driven through its user interface only.
NextUI ==
    \/ \E type \in Types : handleFileChangeClear(type)
    \/ \E file \in Files, type \in Types : handleFileChangeSelect(file, type)
    \/ \E file \in Files, type \in Types : handleFileChangeEncoded(file, type)
    \/ \E file \in Files, type \in Types : handleFileChangeCatch(file, type)
    \/ clickTryOn
    \/ \E i \in 1..MaxInflight : generateThrewConfig(i)
    \/ \E i \in 1..MaxInflight, svc \in ServiceOutcomes : generateSettles(i, svc)

SpecUI == Init /\ [][NextUI]_vars

(* ------------------------------ claims -------------------------------- *)

Contains(s, m) ==
    \E k \in 1..(Len(s) - Len(m) + 1) : SubSeq(s, k, k + Len(m) - 1) = m

\* a step of handleTryOn (either branch)
TryOnInvoked == lastEvent'.kind \in {"validationFailed", "generating"}

\* a step in which the awaited generation call settles
SettleStep == lastEvent'.kind \in {"succeeded", "failed"}

SlotMissing == personImage = NullImage \/ clothingImage = NullImage

\* Idle: no result, not loading
Idle == generatedImage = Null /\ ~isLoading

\* the texts a transport failure (a rejected service call) surfaces
TransportMessages ==
    { generateSettlement(svc).message : svc \in { o \in ServiceOutcomes : o.kind = "rejected" } }

\* C1: under the assumption that every issued call settles, every state in
\* which isLoading is true is followed by a state in which it is false.
C1_LoadingEventuallyFalse == isLoading ~> ~isLoading

C1_Witness ==
    /\ lastEvent.kind = "failed"
    /\ lastEvent.cause = "transport"
    /\ ~isLoading

\* C2: handleTryOn invoked with a slot empty issues no generation call, does
\* not turn isLoading on, and sets error to the validation message.
C2_ValidationIssuesNoCall ==
    [][(TryOnInvoked /\ SlotMissing) =>
         /\ inflight' = inflight
         /\ (isLoading' => isLoading)
         /\ error' = "Please upload both images before trying on."]_vars

C2_Witness ==
    /\ lastEvent.kind = "validationFailed"
    /\ personImage # NullImage
    /\ clothingImage = NullImage
    /\ inflight = <<>>
    /\ ~isLoading
    /\ error = ValidationMsg

\* C3 as stated: after a validation failure the workflow is Idle (no result
\* image, not loading), whatever happened before.
C3_IdleAfterValidationFailure ==
    lastEvent.kind = "validationFailed" => Idle

\* C3 amended: a validation failure leaves the result image and the loading
\* flag as they were, so the workflow is Idle afterwards exactly when it was
\* Idle before.
C3_ValidationKeepsWorkflow ==
    [][(TryOnInvoked /\ SlotMissing) =>
         /\ generatedImage' = generatedImage
         /\ isLoading' = isLoading
         /\ (Idle' <=> Idle)]_vars

C3_Witness ==
    /\ lastEvent.kind = "validationFailed"
    /\ generatedImage # Null
    /\ ~isLoading
    /\ error = ValidationMsg

\* C4: a response without an image part makes the client fail with the
\* empty-response text, and what the user sees differs from what a transport
\* failure shows.
C4_EmptyResponseDistinct ==
    (lastEvent.kind = "failed" /\ lastEvent.cause = "noImage") =>
        /\ lastEvent.message = NoImageMsg
        /\ \A m \in TransportMessages : error # ErrorText(m)

\* C5: a generation call is issued, and isLoading turned on, only from a
\* state in which both slots are populated.
C5_GeneratingNeedsBothSlots ==
    [][(Len(inflight') > Len(inflight) \/ lastEvent'.kind = "generating") =>
         /\ personImage # NullImage
         /\ clothingImage # NullImage]_vars

C5_Witness ==
    /\ lastEvent.kind = "generating"
    /\ isLoading
    /\ Len(inflight) = 1
    /\ personImage # NullImage
    /\ clothingImage # NullImage

\* C6: when the client resolves with payload P the result image is
\* "data:image/png;base64," followed by P and loading is false, whatever the
\* media type of the returned part.
C6_ResultIsPngDataUrl ==
    lastEvent.kind = "succeeded" =>
        /\ generatedImage = "data:image/png;base64," \o lastEvent.value
        /\ ~isLoading

C6_Witness ==
    /\ lastEvent.kind = "succeeded"
    /\ lastEvent.value = JpegPart.inlineData.data
    /\ generatedImage = "data:image/png;base64,YmFy"
    /\ ~isLoading

\* what C7 says of the error channel after a failure with message M
FailureSurfaced ==
    /\ ~isLoading
    /\ error = "An error occurred: " \o lastEvent.message \o ". Please try again."
    /\ Contains(error, lastEvent.message)

C8_ExactlyOnePopulated ==
    (everSettled /\ ~isLoading) => ((generatedImage # Null) # (error # Null))

\* C8 amended: the step that finishes an attempt writes exactly one of the
\* two fields and leaves the other as it was, and once an attempt has
\* finished and loading is false at least one of the two is populated.
C8_AtLeastOnePopulated ==
    [][/\ SettleStep =>
            \/ (generatedImage' # Null /\ error' = error)
            \/ (error' # Null /\ generatedImage' = generatedImage)
       /\ (everSettled' /\ ~isLoading') =>
            (generatedImage' # Null \/ error' # Null)]_vars

C8_Witness ==
    /\ everSettled
    /\ ~isLoading
    /\ generatedImage # Null
    /\ error = EncodingFailedMsg

\* C9: once no encoding is pending for a type, its slot holds the file of
\* the latest selection (empty after a clear), provided that file is readable.
C9_LatestSelectionWins ==
    \A t \in Types :
        ( /\ \A f \in Files : ~BagIn([file |-> f, type |-> t], pendingEnc)
          /\ (selected[t] = Null \/ fileToBase64(selected[t]).ok) )
        => slotOf(t).file = selected[t]

\* C10: handleTryOn invoked while the latest handleFileChange of some type is
\* a clear that followed a stored upload fails validation.
C10_ClearedSlotFailsValidation ==
    ( /\ lastEvent.kind \in {"validationFailed", "generating"}
      /\ \E t \in Types : clearedAfterStore[t] )
    => (lastEvent.kind = "validationFailed" /\ error = ValidationMsg)

\* C11: when the service call rejects, what the client raises and what the
\* user sees is the same fixed text for every rejection text of the service,
\* and does not contain that text; loading is false.
C11_TransportTextHidden ==
    (lastEvent.kind = "failed" /\ lastEvent.cause = "transport") =>
        /\ lastEvent.message = "Failed to generate image. The model may be unavailable or the request was invalid."
        /\ error = "An error occurred: Failed to generate image. The model may be unavailable or the request was invalid.. Please try again."
        /\ ~Contains(error, lastEvent.outcome.message)
        /\ ~isLoading

C11_Witness ==
    /\ lastEvent.kind = "failed"
    /\ lastEvent.cause = "transport"
    /\ lastEvent.outcome.message = "503 Service Unavailable"
    /\ error = ErrorText(GenericMsg)
    /\ ~isLoading

\* the calls in s whose request has been sent to the service
SentCount(s) == Cardinality({k \in 1..Len(s) : s[k].stage = "sent"})

\* C12: a guard-passing handleTryOn issues exactly one generation call, which
\* sends exactly one request when the credential is present; no other step
\* issues a call or sends a request, and a settling call is not re-issued.
C12_OneCallNoRetry ==
    [][/\ (TryOnInvoked /\ ~SlotMissing) =>
            /\ Len(inflight') = Len(inflight) + 1
            /\ SentCount(inflight') = SentCount(inflight) + (IF apiKey THEN 1 ELSE 0)
       /\ ~TryOnInvoked =>
            /\ Len(inflight') <= Len(inflight)
            /\ SentCount(inflight') <= SentCount(inflight)
       /\ SettleStep => Len(inflight') = Len(inflight) - 1]_vars

C12_Witness ==
    /\ lastEvent.kind = "failed"
    /\ lastEvent.cause = "noImage"
    /\ apiKey
    /\ inflight = <<>>

\* C13: without the credential no request is ever sent, no attempt succeeds,
\* and every attempt ends with loading false, no result and the error
\* message built from the configuration error's text.
C13_NoKeyNoRequest ==
    ~apiKey =>
        /\ \A k \in 1..Len(inflight) :
              inflight[k].stage = "threw" /\ inflight[k].request = NoRequest
        /\ lastEvent.kind # "succeeded"
        /\ lastEvent.kind = "failed" =>
              /\ lastEvent.cause = "config"
              /\ lastEvent.message = "API_KEY environment variable not set."
              /\ error = "An error occurred: API_KEY environment variable not set.. Please try again."
              /\ generatedImage = Null
              /\ ~isLoading

C13_Witness ==
    /\ ~apiKey
    /\ lastEvent.kind = "failed"
    /\ lastEvent.cause = "config"
    /\ inflight = <<>>
    /\ error = ErrorText(ApiKeyMsg)

\* the positions of the parts that carry inline data of an image media type
ImageIndexes(parts) ==
    { k \in 1..Len(parts) :
        /\ parts[k].inlineData # NullBlob
        /\ Len(parts[k].inlineData.mimeType) >= 6
        /\ SubSeq(parts[k].inlineData.mimeType, 1, 6) = "image/" }

C15_EncodingFailureFrame ==
    [][lastEvent'.kind = "encodeFailed" =>
         /\ error' = "Failed to process file. Please try another image."
         /\ UNCHANGED <<isLoading, generatedImage, personImage, clothingImage, inflight>>]_vars

C15_Witness ==
    /\ lastEvent.kind = "encodeFailed"
    /\ selected["person"] = "broken.img"
    /\ personImage.file = "person.jpg"
    /\ isLoading
    /\ error = EncodingFailedMsg

\* C16: right after a guard-passing handleTryOn, loading is true and error
\* and result image are null; a result image held when an attempt fails was
\* stored while that attempt was in flight, never before it started.
C16_AttemptStartsClean ==
    /\ lastEvent.kind = "generating" =>
          (isLoading /\ error = Null /\ generatedImage = Null)
    /\ (lastEvent.kind = "failed" /\ generatedImage # Null) => lastEvent.sawResult

C16_Witness ==
    /\ lastEvent.kind = "generating"
    /\ everSettled
    /\ Len(inflight) = 1
    /\ error = Null
    /\ generatedImage = Null

\* the request parts built from the two slots as they are now
RequestOfSlots ==
    << [inlineData |-> [data |-> personImage.base64, mimeType |-> personImage.mimeType]],
       [inlineData |-> [data |-> clothingImage.base64, mimeType |-> clothingImage.mimeType]],
       [text |-> InstructionText] >>

\* C17: the request of a newly issued call carries the payload and media
\* type the two slots hold when handleTryOn is invoked, and no later step
\* changes the request of a call in flight.
C17_RequestFromSlotsAtInvocation ==
    [][/\ (Len(inflight') > Len(inflight) /\ apiKey) =>
            inflight'[Len(inflight')].request = RequestOfSlots
       /\ Len(inflight') >= Len(inflight) =>
            \A k \in 1..Len(inflight) : inflight'[k].request = inflight[k].request]_vars

C17_Witness ==
    /\ apiKey
    /\ Len(inflight) = 1
    /\ inflight[1].stage = "sent"
    /\ inflight[1].request[1].inlineData.data = "cGVy"
    /\ inflight[1].request[2].inlineData.mimeType = "image/png"
    /\ personImage.base64 = "c2hp"
    /\ clothingImage = NullImage

\* C18: when handleTryOn is reached only through the enabled button, at most
\* one generation call is in flight and isLoading is true exactly while one is.
C18_OneCallAtATime ==
    /\ Len(inflight) <= 1
    /\ isLoading <=> inflight # << >>

C18_Witness ==
    /\ isLoading
    /\ Len(inflight) = 1
    /\ everSettled
    /\ personImage = NullImage

\* C19: a handleFileChange whose encoding succeeds stores the file in the
\* slot of its type, and a clear empties one slot; both leave the other
\* slot, the result image, isLoading, error and the calls in flight alone.
C19_UploadFrame ==
    [][/\ lastEvent'.kind \in {"encoded", "cleared"} =>
            UNCHANGED <<generatedImage, isLoading, error, inflight>>
       /\ lastEvent'.kind = "cleared" =>
            \/ (personImage' = NullImage /\ clothingImage' = clothingImage)
            \/ (clothingImage' = NullImage /\ personImage' = personImage)
       /\ lastEvent'.kind = "encoded" =>
            \E f \in Files, t \in Types :
               /\ BagIn([file |-> f, type |-> t], pendingEnc)
               /\ pendingEnc' = pendingEnc (-) SetToBag({[file |-> f, type |-> t]})
               /\ IF t = "person"
                  THEN personImage'.file = f /\ clothingImage' = clothingImage
                  ELSE clothingImage'.file = f /\ personImage' = personImage]_vars

C19_Witness ==
    /\ lastEvent.kind = "encoded"
    /\ error = EncodingFailedMsg
    /\ generatedImage # Null
    /\ ~isLoading

TypeOK ==
    /\ isLoading \in BOOLEAN
    /\ apiKey \in BOOLEAN
    /\ BagCardinality(pendingEnc) <= MaxPending
    /\ Len(inflight) <= MaxInflight

====
